---- MODULE Spec2Model ----
(***************************************************************************)
(* CustomSpanProcessor (extensions/custom_span_processor.py): the span     *)
(* processor hooks on_start / on_end, its classification helper            *)
(* _should_process_span, shutdown and force_flush, together with the       *)
(* exporter the processor owns (self._exporter, an InMemorySpanExporter).  *)
(*                                                                         *)
(* Python exceptions are modelled as control flow: every helper returns a  *)
(* record whose field "raised" says whether an exception left the code it  *)
(* models; a try/except Exception block is the place where "raised" is     *)
(* reset.  The exporter is the collaborator of the processor: its export   *)
(* and force_flush may succeed, fail or raise, and force_flush may stay    *)
(* silent, as chosen by the environment at each call.                      *)
(*                                                                         *)
(* The two demo services (DemoApplications/PythonDemos): the page-view     *)
(* tracker's session store (page_view_tracker.py) and the API monitor's    *)
(* call log and endpoint statistics (api_monitor.py), each a Flask         *)
(* application whose request handlers act on module-level collections.     *)
(***************************************************************************)
EXTENDS Integers, Sequences, FiniteSets, TLC

\* ------------------------------------------------------------------ bounds
MaxSpanId == 2
MaxExported == 2
MaxElapsed == 3
MaxTimeout == 2
MaxThreads == 3
MaxClock == 1
MaxSessions == 2
MaxPageViews == 2
MaxCalls == 2
MaxBatch == 2

\* ------------------------------------------------- program constants
SLOW_THRESHOLD_MS == 100
NS_PER_MS == 1000000

\* ------------------------------------------------- Python values
\* A Python scalar is a record [kind, val]; val is always an integer.
PyNone == [kind |-> "None", val |-> 0]
PyInt(n) == [kind |-> "int", val |-> n]
PyBool(b) == [kind |-> "bool", val |-> IF b THEN 1 ELSE 0]
\* opentelemetry.trace.status.StatusCode is an enum.Enum: UNSET=0, OK=1, ERROR=2
StatusCode(name) == [kind |-> "StatusCode",
                     val |-> CASE name = "UNSET" -> 0 [] name = "OK" -> 1 [] OTHER -> 2]

\* Python truthiness, as used by "if x" / "x and y".
Truthy(v) ==
  CASE v.kind = "None" -> FALSE
    [] v.kind \in {"int", "bool"} -> v.val # 0
    [] OTHER -> TRUE

\* Python "a != b": numbers compare by value (True == 1); a plain Enum
\* member is equal only to itself, never to an int.
PyNotEqual(a, b) ==
  IF a.kind \in {"int", "bool"} /\ b.kind \in {"int", "bool"}
    THEN a.val # b.val
    ELSE a # b

\* ------------------------------------------------- span inputs
SpanIds == 1..MaxSpanId
StatusKinds == {"None", "UNSET", "OK", "ERROR", "NoCode"}
ResourceKinds == {"none", "noattrs", "badattrs", "raises", "ok"}
ServiceNames == {"None", "", "svc"}
\* (start_time, end_time) in nanoseconds; end_time None for an unfinished span
TimePairs ==
  { <<0, PyNone>>, <<0, PyInt(50000000)>>, <<0, PyInt(100000000)>>,
    <<0, PyInt(100000001)>>, <<0, PyInt(150000000)>>,
    <<100000000, PyInt(50000000)>> }

\* Objects handed to on_end: ReadableSpans of every shape, and one object per
\* id that is not a ReadableSpan.
EndSpans ==
  { [id |-> i, readable |-> TRUE, start_time |-> tp[1], end_time |-> tp[2],
     status |-> st, resource |-> rk] :
       i \in SpanIds, tp \in TimePairs, st \in StatusKinds,
       rk \in ResourceKinds }
  \cup
  { [id |-> i, readable |-> FALSE, start_time |-> 0, end_time |-> PyNone,
     status |-> "None", resource |-> "none"] : i \in SpanIds }

\* Spans handed to on_start.
StartSpans ==
  { [id |-> i, set_attribute |-> sa, resource |-> rk, service_name |-> sn] :
       i \in SpanIds, sa \in {"ok", "raises"}, rk \in ResourceKinds,
       sn \in ServiceNames }

\* ------------------------------------------------- the exporter
ExportOutcomes == {"ok", "raise", "raise_after"}
FlushOutcomes == {"true", "false", "raise"}

InMemorySpanExporter == [finished_spans |-> <<>>, stopped |-> FALSE]

\* (variant: an exporter that goes on recording after shutdown)
exporter_export_ignores_stop(exp, span, xo) ==
  LET recorded == IF xo = "raise"
                    THEN exp
                    ELSE [exp EXCEPT !.finished_spans = Append(@, span.id)]
  IN [exporter |-> recorded,
      raised |-> xo # "ok",
      result |-> "SUCCESS",
      calls |-> 1]

\* (variant: the newest span is put in front of the list)
exporter_export_prepend(exp, span, xo) ==
  LET recorded == IF exp.stopped \/ xo = "raise"
                    THEN exp
                    ELSE [exp EXCEPT !.finished_spans = <<span.id>> \o @]
  IN [exporter |-> recorded,
      raised |-> xo # "ok",
      result |-> IF exp.stopped THEN "FAILURE" ELSE "SUCCESS",
      calls |-> 1]

\* (variant: a bounded list that drops the incoming span when it is full)
exporter_export_bounded(exp, span, xo) ==
  LET full == Len(exp.finished_spans) >= 2
      recorded == IF exp.stopped \/ xo = "raise" \/ full
                    THEN exp
                    ELSE [exp EXCEPT !.finished_spans = Append(@, span.id)]
  IN [exporter |-> recorded,
      raised |-> xo # "ok",
      result |-> IF exp.stopped THEN "FAILURE" ELSE "SUCCESS",
      calls |-> 1]

\* export([span]): a stopped exporter returns FAILURE and records nothing;
\* otherwise the span is appended.  "raise" raises before anything is
\* recorded, "raise_after" raises once the span has been recorded.
exporter_export(exp, span, xo) ==
  LET recorded == IF exp.stopped \/ xo = "raise"
                    THEN exp
                    ELSE [exp EXCEPT !.finished_spans = Append(@, span.id)]
  IN [exporter |-> recorded,
      raised |-> xo # "ok",
      result |-> IF exp.stopped THEN "FAILURE" ELSE "SUCCESS",
      calls |-> 1]

exporter_shutdown(exp) == [exp EXCEPT !.stopped = TRUE]

\* exporter.force_flush(timeout_millis) once it answers
exporter_force_flush(fo) ==
  [raised |-> fo = "raise",
   result |-> IF fo = "true" THEN PyBool(TRUE) ELSE PyBool(FALSE)]

\* ------------------------------------------------- _should_process_span
\* (variant: floor division, duration in whole milliseconds)
span_duration_floor(span) ==
  [num |-> (span.end_time.val - span.start_time) \div NS_PER_MS, den |-> 1]

\* duration = (span.end_time - span.start_time) / 1_000_000 is a true
\* division: the quotient is kept exact, as numerator and denominator.
span_duration(span) ==
  [num |-> span.end_time.val - span.start_time, den |-> NS_PER_MS]

\* "if duration > 100"
is_slow(duration) == duration.num > SLOW_THRESHOLD_MS * duration.den

\* Body of the duration try block: None - int raises TypeError.
duration_body(span) ==
  LET failed == span.end_time.kind = "None"
  IN [raised |-> failed,
      slow |-> ~failed /\ is_slow(span_duration(span))]

\* (variant: the duration computation without its own handler)
duration_block_no_except(span) == duration_body(span)

\* The duration try block with its "except Exception" handler.
duration_block(span) == [duration_body(span) EXCEPT !.raised = FALSE]

\* "if span.status.status_code != 0", under the hasattr / truthiness guards
status_is_error(span) ==
  /\ span.status # "None"
  /\ span.status # "NoCode"
  /\ PyNotEqual(StatusCode(span.status), PyInt(0))

\* The status try block with its handler; nothing in it raises for the
\* statuses considered, the handler is kept for the shape of the code.
status_block(span) == [raised |-> FALSE, errored |-> status_is_error(span)]

\* (variant: the classification used as a filter)
should_process_span_filtering(span) ==
  LET d == duration_block(span)
      s == status_block(span)
  IN [ret |-> d.slow \/ s.errored,
      raised |-> FALSE,
      slow |-> d.slow,
      errored |-> s.errored,
      status_checked |-> TRUE]

should_process_span(span) ==
  LET d == duration_block(span)
      reached == ~d.raised
      s == IF reached THEN status_block(span)
                      ELSE [raised |-> FALSE, errored |-> FALSE]
  IN [ret |-> TRUE,
      raised |-> FALSE,
      slow |-> d.slow,
      errored |-> s.errored,
      status_checked |-> reached]

\* ------------------------------------------------- on_end
\* Building span_dict and json.dumps: span.status.status_code raises
\* AttributeError on a status without status_code, dict(None) raises
\* TypeError, a resource property that raises lets its exception through
\* hasattr.
build_span_dict(span) ==
  [raised |-> \/ span.status = "NoCode"
              \/ span.resource \in {"badattrs", "raises"}]

NoExport(exp) ==
  [exporter |-> exp, raised |-> FALSE, result |-> "none", calls |-> 0]

\* (variant: a handler that only logs)
fallback_export_skipped(exp, span, xo) == NoExport(exp)

\* (variant: the handler tries the export a second time when it fails)
fallback_export_retry_twice(exp, span, xo) ==
  LET a == exporter_export(exp, span, xo)
      b == IF a.raised \/ a.result = "FAILURE"
             THEN exporter_export(a.exporter, span, xo)
             ELSE NoExport(a.exporter)
  IN [exporter |-> b.exporter, raised |-> FALSE,
      result |-> a.result, calls |-> a.calls + b.calls]

\* The handler of the filtering try block: "still try to export the span",
\* itself inside a try whose handler only logs.
fallback_export(exp, span, xo) ==
  [exporter_export(exp, span, xo) EXCEPT !.raised = FALSE]

\* The exporter already holds the span: an earlier on_end exported it.
SeenBefore(exp, span) ==
  \E k \in DOMAIN exp.finished_spans : exp.finished_spans[k] = span.id

\* (variant: no isinstance test, every object is processed)
returns_early_never(span, exp) == FALSE

\* (variant: a span the exporter already holds is recognised and skipped)
returns_early_end_once(span, exp) ==
  ~span.readable \/ SeenBefore(exp, span)

\* "if not isinstance(span, ReadableSpan): return", the only test on which
\* on_end returns before classifying.
returns_early(span, exp) == ~span.readable

\* The body of on_end's outer try block.  The handlers only log: the
\* processor keeps no counter (drops_counted), and the span is only read
\* (span_after): span_dict is built from copies.
on_end_body(span, exp, xo1, xo2) ==
  IF returns_early(span, exp)
    THEN [raised |-> FALSE, exporter |-> exp, classified |-> FALSE,
          slow |-> FALSE, errored |-> FALSE, status_checked |-> FALSE,
          forward |-> FALSE, logged |-> FALSE, build_raised |-> FALSE,
          export_calls |-> 0, fallback |-> FALSE,
          first_result |-> "none", first_raised |-> FALSE,
          recorded |-> 0, exporter_calls |-> <<>>,
          seen_before |-> SeenBefore(exp, span), drops_counted |-> 0,
          span_after |-> span]
    ELSE
      LET cls == should_process_span(span)
          build == IF cls.ret THEN build_span_dict(span)
                              ELSE [raised |-> FALSE]
          tryFirst == cls.ret /\ ~build.raised
          first == IF tryFirst THEN exporter_export(exp, span, xo1)
                               ELSE NoExport(exp)
          innerRaised == cls.raised \/ build.raised \/ first.raised
          second == IF innerRaised
                      THEN fallback_export(first.exporter, span, xo2)
                      ELSE NoExport(first.exporter)
          n == first.calls + second.calls
      IN [raised |-> second.raised,
          exporter |-> second.exporter,
          classified |-> TRUE,
          slow |-> cls.slow,
          errored |-> cls.errored,
          status_checked |-> cls.status_checked,
          forward |-> cls.ret,
          logged |-> tryFirst,
          build_raised |-> build.raised,
          export_calls |-> n,
          fallback |-> innerRaised,
          first_result |-> first.result,
          first_raised |-> first.raised,
          recorded |-> Len(second.exporter.finished_spans)
                         - Len(exp.finished_spans),
          exporter_calls |-> [k \in 1..n |-> "export"],
          seen_before |-> SeenBefore(exp, span),
          drops_counted |-> 0,
          span_after |-> span]

\* (variant: on_end only queues the span, the export is left to a consumer)
on_end_result_enqueue_only(span, exp, xo1, xo2) ==
  [on_end_body(span, exp, xo1, xo2)
     EXCEPT !.raised = FALSE,
            !.exporter = exp, !.export_calls = 0, !.exporter_calls = <<>>,
            !.recorded = 0, !.first_result = "none", !.first_raised = FALSE,
            !.fallback = FALSE]

\* (variant: neither the fallback export nor the outer block has a handler)
on_end_result_no_handlers(span, exp, xo1, xo2) ==
  LET b == on_end_body(span, exp, xo1, xo2)
  IN [b EXCEPT !.raised = b.fallback /\ xo2 # "ok"]

\* on_end with its outer "except Exception" handler
on_end_result(span, exp, xo1, xo2) ==
  [on_end_body(span, exp, xo1, xo2) EXCEPT !.raised = FALSE]

\* ------------------------------------------------- the processor chain
\* configure_tracing registers the CustomSpanProcessor first and the
\* BatchSpanProcessor (with the OTLP exporter) second.
processor_chain == <<"CustomSpanProcessor", "BatchSpanProcessor">>

\* BatchSpanProcessor.on_end: the span is taken over for the OTLP exporter.
batch_on_end(span) == [raised |-> FALSE, received |-> <<span.id>>]

\* The tracer provider ends a span: the processors are called in
\* registration order, each call made directly, one after the other, so a
\* processor is reached only if the ones before it returned.
chain_on_end_result(span, exp, xo1, xo2) ==
  LET first == on_end_result(span, exp, xo1, xo2)
      invoked == ~first.raised
      second == IF invoked THEN batch_on_end(span)
                           ELSE [raised |-> FALSE, received |-> <<>>]
  IN [raised |-> first.raised \/ second.raised,
      exporter |-> first.exporter,
      order |-> IF invoked THEN processor_chain
                           ELSE SubSeq(processor_chain, 1, 1),
      first |-> first,
      second_invoked |-> invoked,
      second_received |-> second.received]

\* ------------------------------------------------- on_start
\* (variant: setdefault instead of get: an absent key is written)
get_service_name_setdefault(span) ==
  LET v == IF span.service_name = "None" THEN "unknown"
                                         ELSE span.service_name
  IN [value |-> v, service_name_after |-> v]

\* span.resource.attributes.get("service.name"): the value found ("None"
\* when the key is absent) and the mapping as the lookup leaves it.
get_service_name(span) ==
  [value |-> span.service_name, service_name_after |-> span.service_name]

\* (variant: service.name copied without the "if service_name" test)
resource_attributes_unchecked(span) ==
  IF span.resource = "ok"
    THEN {<<"custom.service", get_service_name(span).value>>}
    ELSE {}

\* Attributes are pairs <<key, value>>, the value written as text.
resource_attributes(span) ==
  IF span.resource = "ok" /\ get_service_name(span).value \notin {"None", ""}
    THEN {<<"custom.service", get_service_name(span).value>>}
    ELSE {}

\* The resource of the span once on_start is over: on_start reads it, and
\* looks service.name up only in a resource whose attributes are a mapping.
resource_after(span) ==
  [kind |-> span.resource,
   service_name |-> IF span.resource = "ok"
                      THEN get_service_name(span).service_name_after
                      ELSE span.service_name]

on_start_body(span) ==
  IF span.set_attribute = "raises"
    THEN [raised |-> TRUE, attributes |-> {}, warned |-> FALSE,
          resource_after |-> [kind |-> span.resource,
                              service_name |-> span.service_name]]
    ELSE [raised |-> FALSE,
          resource_after |-> resource_after(span),
          attributes |-> {<<"custom.processed", "True">>,
                          <<"custom.processor.version", "1.0.0">>}
                         \cup resource_attributes(span),
          warned |-> span.resource \in {"badattrs", "raises"}]

\* (variant: on_start without its outer handler)
on_start_result_no_except(span) == on_start_body(span)

\* on_start with its outer "except Exception" handler
on_start_result(span) == [on_start_body(span) EXCEPT !.raised = FALSE]

\* ------------------------------------------------- shutdown, force_flush
\* (variant: a final flush issued before the exporter is shut down)
shutdown_body_flush_first(exp) ==
  [raised |-> FALSE,
   exporter |-> exporter_shutdown(exp),
   was_stopped |-> exp.stopped,
   exporter_calls |-> <<"force_flush", "shutdown">>]

\* "if hasattr(self, '_exporter') and self._exporter" holds of every
\* constructed processor: __init__ always sets the exporter.
shutdown_body(exp) ==
  [raised |-> FALSE,
   exporter |-> exporter_shutdown(exp),
   was_stopped |-> exp.stopped,
   exporter_calls |-> <<"shutdown">>]

\* (variant: a second shutdown raises and nothing catches it)
shutdown_result_raise_twice(exp) ==
  [shutdown_body(exp) EXCEPT !.raised = exp.stopped]

\* shutdown with its "except Exception" handler
shutdown_result(exp) == [shutdown_body(exp) EXCEPT !.raised = FALSE]

\* (variant: the handler reports success when the exporter raised)
force_flush_result_default_true(fo, f) ==
  LET r == exporter_force_flush(fo)
  IN [raised |-> FALSE,
      ret |-> IF r.raised THEN PyBool(TRUE) ELSE r.result,
      outcome |-> fo,
      timeout |-> f.timeout,
      elapsed |-> f.elapsed,
      exporter_calls |-> <<"force_flush">>]

\* (variant: an answer that arrives after the deadline is discarded)
force_flush_result_deadline(fo, f) ==
  LET r == exporter_force_flush(fo)
  IN [raised |-> FALSE,
      ret |-> IF r.raised THEN PyInt(0)
              ELSE IF f.elapsed > f.timeout THEN PyBool(FALSE) ELSE r.result,
      outcome |-> fo,
      timeout |-> f.timeout,
      elapsed |-> f.elapsed,
      exporter_calls |-> <<"force_flush">>]

\* force_flush once exporter.force_flush(timeout_millis) has answered, after
\* f.elapsed units of time: the exporter's result is passed through, and the
\* "except Exception" handler returns 0 when it raised.
force_flush_result(fo, f) ==
  LET r == exporter_force_flush(fo)
  IN [raised |-> FALSE,
      ret |-> IF r.raised THEN PyInt(0) ELSE r.result,
      outcome |-> fo,
      timeout |-> f.timeout,
      elapsed |-> f.elapsed,
      exporter_calls |-> <<"force_flush">>]

\* ------------------------------------------------- state machine
VARIABLES
  exporter,   \* self._exporter: [finished_spans, stopped]
  pc,         \* the calling thread: "idle", "returned", "force_flush"
  last,       \* the call that has just returned: [op, span, res]
  flush,      \* the pending force_flush: [timeout, elapsed]
  tstate,     \* producer threads inside on_end: thread -> [pc, span, local]
  lock,       \* the exporter's lock: 0 when free, else the holding thread
  user_sessions, \* page_view_tracker.user_sessions, in insertion order
  page_views,    \* page_view_tracker.page_views
  now,           \* int(time.time()) of the page-view tracker's host
  pv_last,       \* the page-view tracker's last response
  api_calls,     \* api_monitor.api_calls
  api_endpoints, \* api_monitor.api_endpoints
  api_last       \* the API monitor's last response

pvvars == <<user_sessions, page_views, now, pv_last>>
apivars == <<api_calls, api_endpoints, api_last>>
appvars == <<pvvars, apivars>>
vars == <<exporter, pc, last, flush, tstate, lock, appvars>>
mpvars == <<tstate, lock>>

NoSpan == [id |-> 0]
NoCall == [op |-> "none", span |-> NoSpan, res |-> [raised |-> FALSE]]
NoFlush == [timeout |-> 0, elapsed |-> 0]
Threads == 1..MaxThreads
IdleThread == [pc |-> "idle", span |-> NoSpan, local |-> <<>>, path |-> "none"]
NoResponse == [op |-> "none", status |-> 0]

Init ==
  /\ exporter = InMemorySpanExporter
  /\ pc = "idle"
  /\ last = NoCall
  /\ flush = NoFlush
  /\ tstate = [t \in Threads |-> IdleThread]
  /\ lock = 0
  /\ user_sessions = <<>>
  /\ page_views = <<>>
  /\ now = 0
  /\ pv_last = NoResponse
  /\ api_calls = <<>>
  /\ api_endpoints = <<>>
  /\ api_last = NoResponse

on_start(span) ==
  /\ pc = "idle"
  /\ pc' = "returned"
  /\ last' = [op |-> "on_start", span |-> span, res |-> on_start_result(span)]
  /\ UNCHANGED <<exporter, flush, mpvars, appvars>>

on_end(span, xo1, xo2) ==
  LET r == on_end_result(span, exporter, xo1, xo2)
  IN /\ pc = "idle"
     /\ Len(r.exporter.finished_spans) <= MaxExported
     /\ exporter' = r.exporter
     /\ pc' = "returned"
     /\ last' = [op |-> "on_end", span |-> span, res |-> r]
     /\ UNCHANGED <<flush, mpvars, appvars>>

shutdown ==
  LET r == shutdown_result(exporter)
  IN /\ pc = "idle"
     /\ exporter' = r.exporter
     /\ pc' = "returned"
     /\ last' = [op |-> "shutdown", span |-> NoSpan, res |-> r]
     /\ UNCHANGED <<flush, mpvars, appvars>>

\* force_flush(timeout_millis) enters exporter.force_flush and waits for it
force_flush_call(timeout) ==
  /\ pc = "idle"
  /\ pc' = "force_flush"
  /\ flush' = [timeout |-> timeout, elapsed |-> 0]
  /\ UNCHANGED <<exporter, last, mpvars, appvars>>

\* time passes while exporter.force_flush has not answered
Tick ==
  /\ pc = "force_flush"
  /\ flush.elapsed < MaxElapsed
  /\ flush' = [flush EXCEPT !.elapsed = @ + 1]
  /\ UNCHANGED <<exporter, pc, last, mpvars, appvars>>

\* exporter.force_flush answers and force_flush returns
force_flush_return(fo) ==
  /\ pc = "force_flush"
  /\ pc' = "returned"
  /\ last' = [op |-> "force_flush", span |-> NoSpan,
              res |-> force_flush_result(fo, flush)]
  /\ flush' = NoFlush
  /\ UNCHANGED <<exporter, mpvars, appvars>>

\* the caller takes the result of the hook and goes on
Resume ==
  /\ pc = "returned"
  /\ pc' = "idle"
  /\ last' = NoCall
  /\ UNCHANGED <<exporter, flush, mpvars, appvars>>

\* a span ends under the configured tracer provider
chain_on_end(span, xo1, xo2) ==
  LET r == chain_on_end_result(span, exporter, xo1, xo2)
  IN /\ pc = "idle"
     /\ Len(r.exporter.finished_spans) <= MaxExported
     /\ exporter' = r.exporter
     /\ pc' = "returned"
     /\ last' = [op |-> "chain_on_end", span |-> span, res |-> r]
     /\ UNCHANGED <<flush, mpvars, appvars>>

Next ==
  \/ \E span \in StartSpans : on_start(span)
  \/ \E span \in EndSpans, xo1, xo2 \in ExportOutcomes : on_end(span, xo1, xo2)
  \/ shutdown
  \/ \E timeout \in 0..MaxTimeout : force_flush_call(timeout)
  \/ Tick
  \/ \E fo \in FlushOutcomes : force_flush_return(fo)
  \/ Resume

Spec == Init /\ [][Next]_vars

\* ------------------------------------------------- concurrent producers
\* Several application threads end distinct spans at the same time: thread
\* t ends the span with id t.  The exporter is the plain in-memory exporter
\* (no injected faults): export tests _stopped, takes the exporter's lock,
\* extends the list and releases the lock.  The extension is not assumed
\* atomic (the list is read, then written back): it is the lock that makes
\* it so.
MPSpans(t) ==
  { [id |-> t, readable |-> TRUE, start_time |-> 0,
     end_time |-> PyInt(50000000), status |-> st, resource |-> "ok"] :
       st \in {"OK", "NoCode"} }

\* (variant: the list is extended without mutual exclusion)
lock_available_always(l) == TRUE

\* threading.Lock: it can be taken only when no thread holds it
lock_available(l) == l = 0

\* on_end up to the export call: isinstance, _should_process_span, the span
\* record; the export that follows is the one of the filtering block, or
\* the one of its handler when the span record raised.
mp_on_end_call(t, span) ==
  LET cls == should_process_span(span)
      build == build_span_dict(span)
  IN /\ tstate[t].pc = "idle"
     /\ cls.ret
     /\ tstate' = [tstate EXCEPT ![t] =
          [pc |-> "export", span |-> span, local |-> <<>>,
           path |-> IF build.raised THEN "handler" ELSE "filter"]]
     /\ UNCHANGED <<exporter, pc, last, flush, lock, appvars>>

\* export: "if self._stopped: return FAILURE"
mp_export_enter(t) ==
  /\ tstate[t].pc = "export"
  /\ tstate' = [tstate EXCEPT ![t].pc =
       IF exporter.stopped THEN "done" ELSE "acquire"]
  /\ UNCHANGED <<exporter, pc, last, flush, lock, appvars>>

\* export: "with self._lock"
mp_acquire(t) ==
  /\ tstate[t].pc = "acquire"
  /\ lock_available(lock)
  /\ lock' = t
  /\ tstate' = [tstate EXCEPT ![t].pc = "read"]
  /\ UNCHANGED <<exporter, pc, last, flush, appvars>>

\* export: finished_spans.extend(spans), the list is read ...
mp_extend_read(t) ==
  /\ tstate[t].pc = "read"
  /\ tstate' = [tstate EXCEPT ![t].pc = "write",
                               ![t].local = exporter.finished_spans]
  /\ UNCHANGED <<exporter, pc, last, flush, lock, appvars>>

\* ... and written back with the span at its end
mp_extend_write(t) ==
  /\ tstate[t].pc = "write"
  /\ exporter' = [exporter EXCEPT !.finished_spans =
       Append(tstate[t].local, tstate[t].span.id)]
  /\ tstate' = [tstate EXCEPT ![t].pc = "release"]
  /\ UNCHANGED <<pc, last, flush, lock, appvars>>

\* the lock is released, export returns SUCCESS and on_end returns
mp_release(t) ==
  /\ tstate[t].pc = "release"
  /\ lock' = 0
  /\ tstate' = [tstate EXCEPT ![t].pc = "done"]
  /\ UNCHANGED <<exporter, pc, last, flush, appvars>>

NextMP ==
  \/ \E t \in Threads : \E span \in MPSpans(t) : mp_on_end_call(t, span)
  \/ \E t \in Threads : mp_export_enter(t)
  \/ \E t \in Threads : mp_acquire(t)
  \/ \E t \in Threads : mp_extend_read(t)
  \/ \E t \in Threads : mp_extend_write(t)
  \/ \E t \in Threads : mp_release(t)

SpecMP == Init /\ [][NextMP]_vars

NextChain ==
  \/ \E span \in EndSpans, xo1, xo2 \in ExportOutcomes :
        chain_on_end(span, xo1, xo2)
  \/ Resume

SpecChain == Init /\ [][NextChain]_vars

\* ------------------------------------------------- page-view tracker
procvars == <<exporter, pc, last, flush, tstate, lock>>

\* A Python dict is the sequence of its items [key, value] in insertion
\* order: assigning to a key it holds replaces the value in place, assigning
\* to a new key appends, del removes the item.
dict_has(d, k) == \E i \in DOMAIN d : d[i].key = k
dict_get(d, k) == d[CHOOSE i \in DOMAIN d : d[i].key = k].value
dict_set(d, k, v) ==
  IF dict_has(d, k)
    THEN [i \in DOMAIN d |-> IF d[i].key = k THEN [key |-> k, value |-> v]
                                              ELSE d[i]]
    ELSE Append(d, [key |-> k, value |-> v])
dict_del(d, k) == SelectSeq(d, LAMBDA e : e.key # k)
dict_keys(d) == {d[i].key : i \in DOMAIN d}

\* user ids the clients send; 'anonymous' is the default of data.get
ClientUsers == {"alice"}
AllUsers == ClientUsers \cup {"anonymous"}
ClockValues == 0..MaxClock

\* f"session_{user_id}_{int(time.time())}": the text is determined by, and
\* determines, the pair (user_id, whole second).
session_id_of(user_id, t) == <<user_id, t>>
SessionIds == {session_id_of(u, t) : u \in AllUsers, t \in ClockValues}

\* bodies of POST /api/session/start: no JSON, JSON without user_id,
\* JSON with a user_id
StartRequests ==
  { [json |-> FALSE, has_user_id |-> FALSE, user_id |-> "anonymous"],
    [json |-> TRUE, has_user_id |-> FALSE, user_id |-> "anonymous"] }
  \cup { [json |-> TRUE, has_user_id |-> TRUE, user_id |-> u] :
           u \in ClientUsers }

\* bodies of POST /api/session/end
EndRequests ==
  { [json |-> FALSE, has_session_id |-> FALSE,
     session_id |-> session_id_of("anonymous", 0)],
    [json |-> TRUE, has_session_id |-> FALSE,
     session_id |-> session_id_of("anonymous", 0)] }
  \cup { [json |-> TRUE, has_session_id |-> TRUE, session_id |-> sid] :
           sid \in SessionIds }

\* bodies of POST /api/pageview: no data, data lacking page_name or
\* page_url, data with or without load_time_ms
PageViewRequests ==
  { [json |-> FALSE, user_id |-> "anonymous", has_page |-> FALSE,
     has_load_time |-> FALSE] }
  \cup { [json |-> TRUE, user_id |-> u, has_page |-> hp,
          has_load_time |-> hl] :
           u \in AllUsers, hp \in BOOLEAN, hl \in BOOLEAN }

\* start_session: data.get on a missing body raises and the handler answers
\* 500; otherwise the session is stored under its id.
start_session_result(req, sessions, t) ==
  IF ~req.json
    THEN [status |-> 500, session_id |-> session_id_of("anonymous", 0),
          user_sessions |-> sessions]
    ELSE
      LET user_id == IF req.has_user_id THEN req.user_id ELSE "anonymous"
          sid == session_id_of(user_id, t)
      IN [status |-> 200, session_id |-> sid,
          user_sessions |->
            dict_set(sessions, sid,
                     [user_id |-> user_id, start_time |-> t,
                      pages_visited |-> 0])]

\* end_session: 404 for a missing or unknown session_id, else the session
\* is deleted.
end_session_result(req, sessions) ==
  IF ~req.json
    THEN [status |-> 500, session_id |-> req.session_id,
          user_sessions |-> sessions]
  ELSE IF ~req.has_session_id \/ ~dict_has(sessions, req.session_id)
    THEN [status |-> 404, session_id |-> req.session_id,
          user_sessions |-> sessions]
  ELSE [status |-> 200, session_id |-> req.session_id,
        user_sessions |-> dict_del(sessions, req.session_id)]

\* update_user_session: the first session of the user, in the order of the
\* dict, gets the page appended to pages_visited.
update_user_session(sessions, user_id) ==
  IF \E i \in DOMAIN sessions : sessions[i].value.user_id = user_id
    THEN LET first == CHOOSE i \in DOMAIN sessions :
                        /\ sessions[i].value.user_id = user_id
                        /\ \A j \in 1..(i - 1) :
                             sessions[j].value.user_id # user_id
         IN [sessions EXCEPT ![first].value.pages_visited = @ + 1]
    ELSE sessions

\* track_page_view: the event is stored first; data.get('load_time_ms') is
\* None when the client sent none, and recording None in the histogram may
\* raise (record_raises), which ends the request with 500 before the
\* session is updated.
track_page_view_result(req, record_raises, sessions, views) ==
  IF ~req.json \/ ~req.has_page
    THEN [status |-> 400, user_sessions |-> sessions, page_views |-> views]
  ELSE IF ~req.has_load_time /\ record_raises
    THEN [status |-> 500, user_sessions |-> sessions,
          page_views |-> Append(views, req.user_id)]
  ELSE [status |-> 200,
        user_sessions |-> update_user_session(sessions, req.user_id),
        page_views |-> Append(views, req.user_id)]

start_session(req) ==
  LET r == start_session_result(req, user_sessions, now)
  IN /\ Len(r.user_sessions) <= MaxSessions
     /\ user_sessions' = r.user_sessions
     /\ pv_last' = [op |-> "start_session", status |-> r.status,
                    session_id |-> r.session_id]
     /\ UNCHANGED <<page_views, now, apivars, procvars>>

end_session(req) ==
  LET r == end_session_result(req, user_sessions)
  IN /\ user_sessions' = r.user_sessions
     /\ pv_last' = [op |-> "end_session", status |-> r.status,
                    session_id |-> r.session_id]
     /\ UNCHANGED <<page_views, now, apivars, procvars>>

track_page_view(req, record_raises) ==
  LET r == track_page_view_result(req, record_raises, user_sessions,
                                  page_views)
  IN /\ Len(r.page_views) <= MaxPageViews
     /\ user_sessions' = r.user_sessions
     /\ page_views' = r.page_views
     /\ pv_last' = [op |-> "track_page_view", status |-> r.status,
                    session_id |-> session_id_of(req.user_id, 0)]
     /\ UNCHANGED <<now, apivars, procvars>>

\* the wall clock reaches the next whole second
clock_tick ==
  /\ now < MaxClock
  /\ now' = now + 1
  /\ UNCHANGED <<user_sessions, page_views, pv_last, apivars, procvars>>

NextPV ==
  \/ \E req \in StartRequests : start_session(req)
  \/ \E req \in EndRequests : end_session(req)
  \/ \E req \in PageViewRequests, record_raises \in BOOLEAN :
       track_page_view(req, record_raises)
  \/ clock_tick

SpecPV == Init /\ [][NextPV]_vars

\* ------------------------------------------------- API monitor
\* a JSON value that is not a number, sent as status_code
PyStr == [kind |-> "str", val |-> 0]

MonitoredEndpoints == {"/api/users", "/api/orders"}
StatusCodes == {PyInt(200), PyInt(500), PyStr}
\* the status codes simulate_api_calls draws from are integers
SimulatedStatusCodes == {PyInt(200), PyInt(500)}

\* one reported call: a dict with or without 'endpoint'
CallData ==
  { [has_endpoint |-> FALSE, endpoint |-> "/api/users",
     status_code |-> PyInt(200)] }
  \cup { [has_endpoint |-> TRUE, endpoint |-> ep, status_code |-> sc] :
           ep \in MonitoredEndpoints, sc \in StatusCodes }

\* bodies of POST /api/monitor/call
CallRequests ==
  { [json |-> FALSE, data |-> cd] : cd \in {c \in CallData : ~c.has_endpoint} }
  \cup { [json |-> TRUE, data |-> cd] : cd \in CallData }

SeqsUpTo(S, n) == UNION { [1..k -> S] : k \in 0..n }

\* bodies of POST /api/monitor/batch: no 'api_calls', or a list of calls
BatchRequests ==
  { [json |-> FALSE, api_calls |-> <<>>] }
  \cup { [json |-> TRUE, api_calls |-> cs] : cs \in SeqsUpTo(CallData, MaxBatch) }

\* the calls simulate_api_calls draws with random.choice, count of them
SimulatedCalls ==
  SeqsUpTo({ [endpoint |-> ep, status_code |-> sc] :
               ep \in MonitoredEndpoints, sc \in SimulatedStatusCodes },
           MaxBatch)

\* get_status_category compares the code with integers: a code that is not
\* a number raises TypeError.
get_status_category(status_code) ==
  IF status_code.kind # "int"
    THEN [raised |-> TRUE, category |-> "none"]
    ELSE [raised |-> FALSE,
          category |->
            IF 200 <= status_code.val /\ status_code.val < 300 THEN "success"
            ELSE IF 300 <= status_code.val /\ status_code.val < 400
              THEN "redirect"
            ELSE IF 400 <= status_code.val /\ status_code.val < 500
              THEN "client_error"
            ELSE IF 500 <= status_code.val /\ status_code.val < 600
              THEN "server_error"
            ELSE "unknown"]

\* "status_code >= 400" on a stored call
is_error_call(call) ==
  call.status_code.kind = "int" /\ call.status_code.val >= 400

NewEndpointStats == [total_calls |-> 0, total_errors |-> 0]

\* "Update endpoint statistics": the entry is created on first use, then
\* total_calls and, for a status of 400 or more, total_errors are incremented.
update_endpoint_stats(eps, endpoint, status_code) ==
  LET old == IF dict_has(eps, endpoint) THEN dict_get(eps, endpoint)
                                        ELSE NewEndpointStats
  IN dict_set(eps, endpoint,
       [total_calls |-> old.total_calls + 1,
        total_errors |-> old.total_errors
                           + (IF status_code.val >= 400 THEN 1 ELSE 0)])

\* monitor_api_call: the call is stored, then categorised (which raises for
\* a status that is not a number, answered 500), then counted in
\* api_endpoints.
monitor_api_call_result(req, calls, eps) ==
  IF ~req.json \/ ~req.data.has_endpoint
    THEN [status |-> 400, api_calls |-> calls, api_endpoints |-> eps]
    ELSE
      LET call == [endpoint |-> req.data.endpoint,
                   status_code |-> req.data.status_code]
          stored == Append(calls, call)
      IN IF get_status_category(call.status_code).raised
           THEN [status |-> 500, api_calls |-> stored, api_endpoints |-> eps]
           ELSE [status |-> 200, api_calls |-> stored,
                 api_endpoints |->
                   update_endpoint_stats(eps, call.endpoint, call.status_code)]

\* the loop of monitor_api_batch: a call without endpoint is skipped, every
\* other one is stored; an exception after the append only skips the rest of
\* the iteration.  api_endpoints is not touched.
RECURSIVE batch_store(_, _)
batch_store(calls, cs) ==
  IF cs = <<>> THEN calls
  ELSE batch_store(
         IF Head(cs).has_endpoint
           THEN Append(calls, [endpoint |-> Head(cs).endpoint,
                               status_code |-> Head(cs).status_code])
           ELSE calls,
         Tail(cs))

monitor_api_batch_result(req, calls, eps) ==
  IF ~req.json
    THEN [status |-> 400, api_calls |-> calls, api_endpoints |-> eps,
          processed_count |-> 0]
    ELSE LET stored == batch_store(calls, req.api_calls)
         IN [status |-> 200, api_calls |-> stored, api_endpoints |-> eps,
             processed_count |-> Len(stored) - Len(calls)]

\* simulate_api_calls: every drawn call is stored; api_endpoints is not
\* touched.
simulate_api_calls_result(drawn, calls, eps) ==
  [status |-> 200, api_calls |-> calls \o drawn, api_endpoints |-> eps]

\* get_api_stats: len(api_calls) and the number of calls with
\* status_code >= 400, a comparison that raises for a stored status that is
\* not a number (answered 500); the endpoint statistics are read from
\* api_endpoints.
get_api_stats_result(calls, eps) ==
  IF \E i \in DOMAIN calls : calls[i].status_code.kind # "int"
    THEN [status |-> 500, total_calls |-> 0, total_errors |-> 0,
          endpoint_stats |-> <<>>]
    ELSE [status |-> 200, total_calls |-> Len(calls),
          total_errors |->
            Cardinality({i \in DOMAIN calls : is_error_call(calls[i])}),
          endpoint_stats |-> eps]

monitor_api_call(req) ==
  LET r == monitor_api_call_result(req, api_calls, api_endpoints)
  IN /\ Len(r.api_calls) <= MaxCalls
     /\ api_calls' = r.api_calls
     /\ api_endpoints' = r.api_endpoints
     /\ api_last' = [op |-> "monitor_api_call", status |-> r.status]
     /\ UNCHANGED <<pvvars, procvars>>

monitor_api_batch(req) ==
  LET r == monitor_api_batch_result(req, api_calls, api_endpoints)
  IN /\ Len(r.api_calls) <= MaxCalls
     /\ api_calls' = r.api_calls
     /\ api_endpoints' = r.api_endpoints
     /\ api_last' = [op |-> "monitor_api_batch", status |-> r.status,
                     processed_count |-> r.processed_count]
     /\ UNCHANGED <<pvvars, procvars>>

simulate_api_calls(drawn) ==
  LET r == simulate_api_calls_result(drawn, api_calls, api_endpoints)
  IN /\ Len(r.api_calls) <= MaxCalls
     /\ api_calls' = r.api_calls
     /\ api_endpoints' = r.api_endpoints
     /\ api_last' = [op |-> "simulate_api_calls", status |-> r.status,
                     count |-> Len(drawn)]
     /\ UNCHANGED <<pvvars, procvars>>

get_api_stats ==
  LET r == get_api_stats_result(api_calls, api_endpoints)
  IN /\ api_last' = [op |-> "get_api_stats", status |-> r.status,
                     stats |-> r]
     /\ UNCHANGED <<api_calls, api_endpoints, pvvars, procvars>>

NextAPI ==
  \/ \E req \in CallRequests : monitor_api_call(req)
  \/ \E req \in BatchRequests : monitor_api_batch(req)
  \/ \E drawn \in SimulatedCalls : simulate_api_calls(drawn)
  \/ get_api_stats

SpecAPI == Init /\ [][NextAPI]_vars

\* =================================================================
\* Properties
\* =================================================================
EndCall == last.op = "on_end" /\ last.span.readable
EndBeforeStart(span) ==
  span.end_time.kind = "int" /\ span.end_time.val < span.start_time
EndAbsent(span) == span.end_time.kind = "None"

\* C1: no exception propagates to the caller of on_start or on_end, whatever
\* the span looks like (no resource, no status, end before start, a
\* set_attribute that raises) and whatever the exporter does.
C1_NoPropagation ==
  last.op \in {"on_start", "on_end"} => ~last.res.raised

C1_Witness ==
  /\ last.op = "on_start"
  /\ last.span.set_attribute = "raises"
  /\ last.span.resource = "none"
  /\ ~last.res.raised

\* C2: fail-open forwarding: a malformed span (missing resource, missing
\* status, end before start), and a span whose classification or whose
\* span record raises, is still handed to the exporter's export.
C2_FailOpenForwarding ==
  ( /\ EndCall
    /\ \/ last.span.resource = "none"
       \/ last.span.status = "None"
       \/ EndBeforeStart(last.span)
       \/ EndAbsent(last.span)
       \/ last.res.build_raised )
  => last.res.export_calls >= 1

C2_Witness ==
  /\ EndCall
  /\ last.res.build_raised
  /\ last.res.fallback
  /\ last.res.export_calls = 1
  /\ last.res.recorded = 1

\* C3: baseline policy: every span passed to on_end is forwarded to the
\* exporter, whether it is slow, errored or normal; an export the exporter
\* accepts records the span exactly once, as the newest finished span.
C3_ForwardAll ==
  EndCall =>
    /\ last.res.forward
    /\ last.res.export_calls >= 1
    /\ (last.res.first_result = "SUCCESS" /\ ~last.res.first_raised)
         => /\ last.res.recorded = 1
            /\ exporter.finished_spans[Len(exporter.finished_spans)]
                 = last.span.id

C3_Witness ==
  /\ EndCall
  /\ ~last.res.slow
  /\ ~last.res.errored
  /\ last.span.end_time = PyInt(50000000)
  /\ last.res.recorded = 1

\* C4: a span is reported as errored by on_end exactly when its status is
\* ERROR; a span with status OK or UNSET is never reported as errored.
C4_ErroredIffError ==
  EndCall => (last.res.errored <=> last.span.status = "ERROR")

\* C5: a span is reported as slow by on_end exactly when its end timestamp
\* is present and end - start exceeds 100 ms (100 000 000 ns): 150 ms is
\* slow, 50 ms and exactly 100 ms are not.
C5_SlowIffOver100ms ==
  EndCall =>
    (last.res.slow <=>
       /\ last.span.end_time.kind = "int"
       /\ last.span.end_time.val - last.span.start_time > 100000000)

C5_Witness ==
  /\ EndCall
  /\ last.span.start_time = 0
  /\ last.span.end_time = PyInt(100000001)
  /\ last.res.slow

\* C6: with the end timestamp absent or before the start timestamp the
\* span is not reported slow, the status check still runs, the
\* classification does not abort and the span is still forwarded.
C6_UnknownDuration ==
  (EndCall /\ (EndAbsent(last.span) \/ EndBeforeStart(last.span)))
  => /\ ~last.res.slow
     /\ last.res.status_checked
     /\ last.res.forward
     /\ last.res.export_calls >= 1

C6_Witness ==
  /\ EndCall
  /\ EndAbsent(last.span)
  /\ last.span.status = "ERROR"
  /\ last.res.errored
  /\ last.res.recorded = 1

\* C7: shutdown is idempotent: a shutdown of a processor that has already
\* been shut down does not raise and leaves the exporter as it was.
C7_ShutdownIdempotent ==
  [][ (pc = "idle" /\ exporter.stopped /\ last'.op = "shutdown")
        => (exporter' = exporter /\ ~last'.res.raised) ]_vars

C7_Witness ==
  /\ last.op = "shutdown"
  /\ last.res.was_stopped
  /\ Len(exporter.finished_spans) >= 1

\* C8 (as stated): shutdown issues a final flush to the exporter before it
\* shuts the exporter down.
C8_FlushBeforeShutdown ==
  last.op = "shutdown" =>
    \E i, j \in DOMAIN last.res.exporter_calls :
      /\ i < j
      /\ last.res.exporter_calls[i] \in {"force_flush", "export"}
      /\ last.res.exporter_calls[j] = "shutdown"

\* C8 (amended): shutdown issues no flush: its only call to the exporter is
\* the exporter's shutdown, which stops the exporter and leaves the spans
\* the exporter holds untouched.
C8_ShutdownOnlyStops ==
  [][ (pc = "idle" /\ last'.op = "shutdown")
        => /\ last'.res.exporter_calls = <<"shutdown">>
           /\ exporter'.stopped
           /\ exporter'.finished_spans = exporter.finished_spans ]_vars

C8_Witness ==
  /\ last.op = "shutdown"
  /\ ~last.res.was_stopped
  /\ exporter.stopped
  /\ Len(exporter.finished_spans) >= 2

C10_ReturnsByDeadline ==
  /\ pc = "force_flush" => flush.elapsed <= flush.timeout
  /\ last.op = "force_flush" => last.res.elapsed <= last.res.timeout

\* C10 (amended): force_flush hands the timeout to the exporter and returns
\* when the exporter's force_flush answers, also after the deadline, with
\* the exporter's own result (0 when it raised).
C10_ReturnsExporterAnswer ==
  (last.op = "force_flush" /\ last.res.elapsed > last.res.timeout)
  => last.res.ret = (IF last.res.outcome = "raise" THEN PyInt(0)
                     ELSE PyBool(last.res.outcome = "true"))

C10_Witness ==
  /\ last.op = "force_flush"
  /\ last.res.elapsed > last.res.timeout
  /\ last.res.timeout >= 1
  /\ last.res.ret = PyBool(TRUE)

C12_BoundedBuffer ==
  Len(exporter.finished_spans) <= MaxExported - 1

\* C12 (amended): nothing is dropped and nothing is counted: an on_end
\* whose export the exporter accepts appends the span to the exporter's
\* list, however many spans the list already holds.
C12_NoDropNoBound ==
  [][ ( /\ pc = "idle"
        /\ last'.op = "on_end"
        /\ last'.span.readable
        /\ last'.res.first_result = "SUCCESS"
        /\ ~last'.res.first_raised )
      => /\ exporter'.finished_spans
              = Append(exporter.finished_spans, last'.span.id)
         /\ last'.res.drops_counted = 0 ]_vars

C12_Witness ==
  /\ EndCall
  /\ Len(exporter.finished_spans) = MaxExported
  /\ last.res.recorded = 1
  /\ last.res.drops_counted = 0

Occurrences(seq, x) == Cardinality({k \in DOMAIN seq : seq[k] = x})

\* C13 (as stated): end-once: an on_end on a span that an earlier on_end
\* already exported is a no-op, the exporter is left as it was.
C13_EndOnce ==
  [][ (pc = "idle" /\ last'.op = "on_end" /\ last'.res.seen_before)
        => exporter' = exporter ]_vars

\* C13 (amended): on_end keeps no record of the spans it has seen: a second
\* on_end on the same span is processed like the first one, and when the
\* exporter accepts it the exporter holds the span twice.
C13_EndedAgainExportedAgain ==
  ( /\ EndCall
    /\ last.res.seen_before
    /\ last.span.readable )
  => /\ last.res.classified
     /\ last.res.export_calls >= 1
     /\ ( (last.res.first_result = "SUCCESS" /\ ~last.res.first_raised)
          => Occurrences(exporter.finished_spans, last.span.id) >= 2 )

C13_Witness ==
  /\ EndCall
  /\ last.res.seen_before
  /\ last.res.export_calls = 1
  /\ exporter.finished_spans = <<last.span.id, last.span.id>>

\* C14 (as stated): on_end never calls the exporter's export on the calling
\* thread; it only queues the span.
C14_NoExportOnCaller ==
  last.op = "on_end" => last.res.export_calls = 0

\* C14 (amended): on_end calls the exporter's export itself, on the calling
\* thread, once or (after an exception) twice, before it returns; there is
\* no queue and no consumer: the exporter's list changes only during an
\* on_end call.
C14_SynchronousExport ==
  [][ /\ (pc = "idle" /\ last'.op = "on_end" /\ last'.span.readable)
           => /\ Len(last'.res.exporter_calls) \in {1, 2}
              /\ \A k \in DOMAIN last'.res.exporter_calls :
                    last'.res.exporter_calls[k] = "export"
              /\ exporter' = last'.res.exporter
      /\ exporter'.finished_spans # exporter.finished_spans
           => (pc = "idle" /\ last'.op = "on_end") ]_vars

C14_Witness ==
  /\ EndCall
  /\ last.res.exporter_calls = <<"export", "export">>
  /\ last.res.recorded = 2

\* C15: FIFO delivery: the spans the exporter received from on_end calls
\* that are over stay, in their order, in front of whatever a later on_end
\* call delivers; a call delivers only its own span.
C15_FifoDelivery ==
  [][ /\ Len(exporter'.finished_spans) >= Len(exporter.finished_spans)
      /\ SubSeq(exporter'.finished_spans, 1, Len(exporter.finished_spans))
           = exporter.finished_spans
      /\ \A k \in DOMAIN exporter'.finished_spans :
           k > Len(exporter.finished_spans)
             => exporter'.finished_spans[k] = last'.span.id ]_vars

C15_Witness ==
  /\ EndCall
  /\ last.span.id = 2
  /\ last.res.recorded = 1
  /\ exporter.finished_spans = <<1, 2>>

\* C16: multi-producer safety: whatever the interleaving of the on_end
\* calls that several threads make on distinct spans, no span is in the
\* exporter twice, and the span of every call that is over is in the
\* exporter exactly once.
C16_ExactlyOnce ==
  \A t \in Threads :
    /\ Occurrences(exporter.finished_spans, t) <= 1
    /\ tstate[t].pc \in {"release", "done"}
         => Occurrences(exporter.finished_spans, t) = 1

C16_Witness ==
  /\ \A t \in Threads : tstate[t].pc = "done"
  /\ Len(exporter.finished_spans) = MaxThreads
  /\ exporter.finished_spans[1] = MaxThreads
  /\ \E t \in Threads : tstate[t].path = "handler"
  /\ \E t \in Threads : tstate[t].path = "filter"

\* C17 (as stated): when the export fails or raises and the span is lost,
\* a drop counter is incremented and nothing is raised to the caller.
C17_DropCounted ==
  (EndCall /\ last.res.recorded = 0)
  => (last.res.drops_counted >= 1 /\ ~last.res.raised)

\* C17 (amended): an export that raises is retried once, by the handler; an
\* export that returns FAILURE is not retried, its result is ignored; a span
\* lost that way is only logged, no counter is kept, nothing is raised.
C17_RetryOnceNoCounter ==
  EndCall =>
    /\ last.res.first_raised => last.res.export_calls = 2
    /\ (last.res.first_result = "FAILURE" /\ ~last.res.first_raised)
         => (last.res.export_calls = 1 /\ last.res.recorded = 0)
    /\ last.res.export_calls <= 2
    /\ last.res.drops_counted = 0
    /\ ~last.res.raised

C17_Witness ==
  /\ EndCall
  /\ ~exporter.stopped
  /\ last.res.first_raised
  /\ last.res.export_calls = 2
  /\ last.res.recorded = 0

\* C18: after on_start on a span whose set_attribute works, the span carries
\* custom.processed = True and custom.processor.version = "1.0.0"; it
\* carries custom.service, equal to service.name, exactly when the resource
\* attributes are accessible and service.name is present and not empty.
C18_StartAttributes ==
  (last.op = "on_start" /\ last.span.set_attribute = "ok")
  => /\ <<"custom.processed", "True">> \in last.res.attributes
     /\ <<"custom.processor.version", "1.0.0">> \in last.res.attributes
     /\ (\E a \in last.res.attributes : a[1] = "custom.service")
          <=> (last.span.resource = "ok"
               /\ last.span.service_name \notin {"None", ""})
     /\ \A a \in last.res.attributes :
          a[1] = "custom.service" => a[2] = last.span.service_name
     /\ Cardinality(last.res.attributes) \in {2, 3}

C18_Witness ==
  /\ last.op = "on_start"
  /\ last.span.set_attribute = "ok"
  /\ last.span.resource = "ok"
  /\ <<"custom.service", "svc">> \in last.res.attributes

\* C19: the processor only reads shared span data: on_start leaves the
\* resource attributes as they were (service.name included, present or
\* not), and on_end leaves the ended span (timestamps, status, resource)
\* as it was.
C19_ReadOnly ==
  /\ last.op = "on_start"
       => /\ last.res.resource_after.kind = last.span.resource
          /\ last.res.resource_after.service_name = last.span.service_name
  /\ last.op = "on_end" => last.res.span_after = last.span

C19_Witness ==
  /\ last.op = "on_start"
  /\ last.span.set_attribute = "ok"
  /\ last.span.resource = "ok"
  /\ last.span.service_name = "None"
  /\ last.res.resource_after.service_name = "None"
  /\ Cardinality(last.res.attributes) = 2

\* C20: once shutdown has stopped the exporter, an on_end still returns
\* without raising, its export is rejected (FAILURE) and records nothing:
\* the spans the exporter holds never change after shutdown.
C20_NothingAfterShutdown ==
  [][ exporter.stopped
        => /\ exporter' = exporter
           /\ (pc = "idle" /\ last'.op = "on_end")
                => /\ ~last'.res.raised
                   /\ last'.res.recorded = 0
                   /\ last'.res.first_result \in {"FAILURE", "none"} ]_vars

C20_Witness ==
  /\ EndCall
  /\ exporter.stopped
  /\ Len(exporter.finished_spans) >= 1
  /\ last.res.first_result = "FAILURE"
  /\ last.res.export_calls = 1
  /\ last.res.recorded = 0

\* C21: one on_end on a ReadableSpan calls the exporter's export once when
\* nothing raises in the filtering block and at most twice otherwise; the
\* second call is the fallback and is made only after the first path raised;
\* the exporter records the span at most once in the call, except that it
\* records it twice when the first export raised after recording it.
C21_ExportCalls ==
  EndCall
  => /\ last.res.export_calls \in {1, 2}
     /\ last.res.exporter_calls = [k \in 1..last.res.export_calls |-> "export"]
     /\ ~last.res.fallback => last.res.export_calls = 1
     /\ last.res.fallback <=> (last.res.build_raised \/ last.res.first_raised)
     /\ last.res.export_calls = 2 <=> last.res.first_raised
     /\ last.res.recorded \in {0, 1, 2}
     /\ last.res.recorded = 2 => last.res.first_raised
     /\ Len(exporter.finished_spans) >= last.res.recorded

C21_Witness ==
  /\ EndCall
  /\ last.res.first_raised
  /\ last.res.fallback
  /\ last.res.export_calls = 2
  /\ last.res.recorded = 2
  /\ exporter.finished_spans = <<last.span.id, last.span.id>>

\* C22: an on_end given an object that is not a ReadableSpan returns without
\* raising, without classifying or logging it and without calling the
\* exporter, and the exporter is left exactly as it was.
C22_NonSpanIgnored ==
  [][ (pc = "idle" /\ last'.op = "on_end" /\ ~last'.span.readable)
        => /\ exporter' = exporter
           /\ ~last'.res.raised
           /\ ~last'.res.classified
           /\ ~last'.res.status_checked
           /\ ~last'.res.logged
           /\ last'.res.export_calls = 0
           /\ last'.res.exporter_calls = <<>>
           /\ last'.res.recorded = 0 ]_vars

C22_Witness ==
  /\ last.op = "on_end"
  /\ ~last.span.readable
  /\ ~exporter.stopped
  /\ Len(exporter.finished_spans) >= 1
  /\ last.res.export_calls = 0
  /\ ~last.res.seen_before

\* a step of the page-view tracker that answered the named request
PVStep(op) ==
  /\ pv_last'.op = op
  /\ <<pv_last, user_sessions, page_views>>' #
       <<pv_last, user_sessions, page_views>>

\* C23 (as stated): session lifecycle of the page-view tracker: a successful
\* start_session adds one new session whose id no existing session has; a
\* session leaves user_sessions only by a successful end_session for its id;
\* an end_session answered 404 leaves user_sessions unchanged.
C23_SessionLifecycle ==
  [][ /\ (PVStep("start_session") /\ pv_last'.status = 200)
           => /\ pv_last'.session_id \notin dict_keys(user_sessions)
              /\ Len(user_sessions') = Len(user_sessions) + 1
              /\ dict_keys(user_sessions') =
                   dict_keys(user_sessions) \cup {pv_last'.session_id}
      /\ (PVStep("end_session") /\ pv_last'.status = 404)
           => user_sessions' = user_sessions
      /\ \A sid \in dict_keys(user_sessions) \ dict_keys(user_sessions') :
           /\ PVStep("end_session")
           /\ pv_last'.status = 200
           /\ pv_last'.session_id = sid ]_vars

RECURSIVE SumStat(_, _)
SumStat(eps, field) ==
  IF eps = <<>> THEN 0
  ELSE Head(eps).value[field] + SumStat(Tail(eps), field)

\* C24 (as stated): the API monitor's statistics are consistent: total_calls
\* summed over api_endpoints equals the number of stored api_calls,
\* total_errors summed equals the number of stored calls with a status of
\* 400 or more, and no endpoint has more errors than calls.
C24_StatsConsistent ==
  /\ SumStat(api_endpoints, "total_calls") = Len(api_calls)
  /\ SumStat(api_endpoints, "total_errors") =
       Cardinality({i \in DOMAIN api_calls : is_error_call(api_calls[i])})
  /\ \A i \in DOMAIN api_endpoints :
       api_endpoints[i].value.total_errors
         <= api_endpoints[i].value.total_calls

====
